---- MODULE Spec2Model ----
(***************************************************************************)
(* Model of PasswordVault (src/core/PassWordVault.cpp): a repository over  *)
(* one sqlite3 connection holding Codebook and PasswordEntry rows.         *)
(*                                                                         *)
(* The connection is modelled by `disk` (the committed rows), `view` (the  *)
(* rows as the connection sees them: equal to `disk` in autocommit mode,   *)
(* the uncommitted working copy while a transaction is open) and `inTxn`.  *)
(* Every sqlite3 call whose result the code tests (prepare, the step of a  *)
(* write, BEGIN / COMMIT / ROLLBACK) can fail; the failure is an input of  *)
(* the action.  `last` records the running/most recent call: operation,    *)
(* arguments, the view before it, its outcome and the sqlite3 calls made.  *)
(***************************************************************************)
EXTENDS Integers, Sequences, FiniteSets, TLC

VARIABLES disk, view, inTxn, now, pc, last

vars == <<disk, view, inTxn, now, pc, last>>

----------------------------------------------------------------------------
(* Bounds of the model                                                     *)

MaxCbId == 2
MaxEntryId == 2
MaxTime == 1

----------------------------------------------------------------------------
(* std::string, run-length encoded: a sequence of runs [c, n] in which     *)
(* adjacent runs carry different characters, so equal strings are equal    *)
(* values.  A character is a one-byte token; HighByte is a byte >= 0x80.   *)

HighByte == "0x80"

AsciiAlnum == {"a", "b", "A", "B", "C", "k", "p", "n", "1"}

Rep(c, n) == IF n = 0 THEN <<>> ELSE <<[c |-> c, n |-> n] >>

Concat(a, b) ==
    IF a = <<>> THEN b
    ELSE IF b = <<>> THEN a
    ELSE IF a[Len(a)].c = b[1].c
         THEN SubSeq(a, 1, Len(a) - 1)
              \o <<[c |-> b[1].c, n |-> (a[Len(a)].n + b[1].n)] >>
              \o Tail(b)
         ELSE a \o b

RECURSIVE Str(_)
Str(chars) ==
    IF chars = <<>> THEN <<>>
    ELSE Concat(Rep(Head(chars), 1), Str(Tail(chars)))

RECURSIVE StrLen(_)
StrLen(s) == IF s = <<>> THEN 0 ELSE s[1].n + StrLen(Tail(s))

RECURSIVE CharAt(_, _)
CharAt(s, i) == IF i <= s[1].n THEN s[1].c ELSE CharAt(Tail(s), i - s[1].n)

----------------------------------------------------------------------------
(* Validation                                                              *)

MaxNameLen == 100
MaxAddressLen == 253
MaxPublicKeyLen == 4096
MaxEncryptedPasswordLen == 512

(* isalnum(c) on a plain char: a byte >= 0x80 is a negative int, for which *)
(* the call is undefined; `ub` is the outcome the build produces there.    *)
IsAlnum(c, ub) == IF c = HighByte THEN ub ELSE c \in AsciiAlnum

NameCharOk(c, ub) == IsAlnum(c, ub) \/ c = " " \/ c = "-" \/ c = "_"

ValidateCodebookName(name, ub) ==
    /\ name # <<>>
    /\ StrLen(name) <= MaxNameLen
    /\ \A i \in DOMAIN name : NameCharOk(name[i].c, ub)

(* The three checks at the head of UpdateEntry                             *)
(* Variant: the address limit is exclusive.                                *)
ValidAddress_Exclusive(s) == ~(s = <<>> \/ StrLen(s) >= MaxAddressLen)

ValidAddress(s) == ~(s = <<>> \/ StrLen(s) > MaxAddressLen)

ValidPublicKey(s) == ~(s = <<>> \/ StrLen(s) > MaxPublicKeyLen)

ValidEncryptedPassword(s) == ~(s = <<>> \/ StrLen(s) > MaxEncryptedPasswordLen)

----------------------------------------------------------------------------
(* Inputs                                                                  *)

NameA == Str(<<"a">>)
NameMixed == Str(<<"A", "-", "B", "_", "C", " ", "1">>)
NameMax == Rep("a", MaxNameLen)
NameTooLong == Rep("a", MaxNameLen + 1)
NameBang == Str(<<"a", "!">>)
NameHigh == Str(<<"a", HighByte>>)

Names == {<<>>, NameA, NameMixed, NameMax, NameTooLong, NameBang, NameHigh}

Fields(a, k, p, n) ==
    [address |-> a, public_key |-> k, encrypted_password |-> p, notes |-> n]

sAB == Str(<<"a", "b">>)
sK == Str(<<"k">>)
sP == Str(<<"p">>)
sN == Str(<<"n">>)

ValidPayloads ==
    { Fields(Rep("a", MaxAddressLen), Rep("k", MaxPublicKeyLen),
             Rep("p", MaxEncryptedPasswordLen), <<>>),
      Fields(Str(<<"a", "_", "b">>), sK, sP, Rep("!", MaxPublicKeyLen + 1)) }

InvalidPayloads ==
    { Fields(<<>>, sK, sP, sN),
      Fields(Rep("a", MaxAddressLen + 1), sK, sP, sN),
      Fields(sAB, <<>>, sP, sN),
      Fields(sAB, Rep("k", MaxPublicKeyLen + 1), sP, sN),
      Fields(sAB, sK, <<>>, sN),
      Fields(sAB, sK, Rep("p", MaxEncryptedPasswordLen + 1), sN) }

UpdatePayloads == ValidPayloads \cup InvalidPayloads

CodebookIds == 0 .. MaxCbId
EntryIds == 0 .. MaxEntryId

(* Result of the step of a write statement: SQLITE_DONE; an error that     *)
(* undoes the statement only; an error after which sqlite has rolled the   *)
(* open transaction back by itself.                                        *)
StepResults == {"done", "error", "abort"}

(* Result of COMMIT: done; failed with the transaction still open;         *)
(* failed and the transaction rolled back by sqlite.                       *)
CommitResults == {"done", "error", "abort"}

----------------------------------------------------------------------------
(* State                                                                   *)

NoRows == [cb |-> {}, en |-> {}]

Conn == [view |-> view, disk |-> disk, inTxn |-> inTxn]

SetConn(c) ==
    /\ view' = c.view
    /\ disk' = c.disk
    /\ inTxn' = c.inTxn

Ev(c, call, ok) == [call |-> call, ok |-> ok, txn |-> c.inTxn]

(* sqlite3_errmsg(db_) after the calls of `trace`: the text of the most     *)
(* recent call when that call failed (sqlite3_finalize reports its         *)
(* statement's step again); when the most recent call succeeded the text   *)
(* is not defined: "not an error" or that of an earlier failure.  A text   *)
(* is named by the call it describes.                                      *)
NotAnError == "not an error"

ErrMsgs(trace) ==
    LET calls == SelectSeq(trace, LAMBDA e : e.call # "finalize") IN
    IF calls = <<>> THEN {NotAnError}
    ELSE IF ~calls[Len(calls)].ok THEN {calls[Len(calls)].call}
    ELSE {NotAnError} \cup {calls[i].call : i \in {j \in DOMAIN calls : ~calls[j].ok}}

(* The messages built as prefix + ": " + sqlite3_errmsg(db_).              *)
UsesErrMsg(what) ==
    what \in {"Prepare failed", "Delete entries failed",
              "Delete codebook failed", "Commit failed"}

(* The record of a call: `what` is the prefix of the message thrown and    *)
(* `diag` the sqlite3_errmsg text appended to it.                          *)
Call(op, args, ret, what, rows, trace) ==
    [op |-> op, args |-> args, pre |-> view, ret |-> ret, what |-> what,
     diag |-> IF UsesErrMsg(what) THEN CHOOSE m \in ErrMsgs(trace) : TRUE ELSE "",
     rows |-> rows, trace |-> trace]

Init ==
    /\ disk = NoRows
    /\ view = NoRows
    /\ inTxn = FALSE
    /\ now = 0
    /\ pc = "idle"
    /\ last = Call("none", <<>>, "none", "", <<>>, <<>>)

(* Ids the store can generate for a new row: above every id in the table.  *)
FreshIds(rows, max) == {i \in 1 .. max : \A r \in rows : r.id < i}

(* Stepping a write statement whose execution turns the connection's rows  *)
(* into `new`.                                                             *)
StepWrite(c, st, new) ==
    CASE st = "done"  -> [c EXCEPT !.view = new,
                                   !.disk = IF c.inTxn THEN @ ELSE new]
      [] st = "error" -> c
      [] st = "abort" -> [c EXCEPT !.view = c.disk, !.inTxn = FALSE]

(* Variant: the statement is finalized only after a successful step.       *)
StmtTrace_LeakOnError(c, st) ==
    IF st = "done"
    THEN <<Ev(c, "prepare", TRUE), Ev(c, "step", TRUE), Ev(c, "finalize", TRUE)>>
    ELSE <<Ev(c, "prepare", TRUE), Ev(c, "step", FALSE)>>

(* The sqlite3 calls of a write statement: prepare, step, finalize.        *)
StmtTrace(c, st) ==
    <<Ev(c, "prepare", TRUE), Ev(c, "step", st = "done"), Ev(c, "finalize", TRUE)>>

----------------------------------------------------------------------------
(* Transaction control: the connection after the command, and whether it   *)
(* reported SQLITE_OK.                                                      *)

BeginTransaction(c, ok) ==
    IF ok /\ ~c.inTxn
    THEN [conn |-> [c EXCEPT !.inTxn = TRUE], ok |-> TRUE]
    ELSE [conn |-> c, ok |-> FALSE]

CommitTransaction(c, cm) ==
    IF ~c.inTxn THEN [conn |-> c, ok |-> FALSE]
    ELSE CASE cm = "done"  -> [conn |-> [c EXCEPT !.disk = c.view, !.inTxn = FALSE],
                               ok |-> TRUE]
           [] cm = "error" -> [conn |-> c, ok |-> FALSE]
           [] cm = "abort" -> [conn |-> [c EXCEPT !.view = c.disk, !.inTxn = FALSE],
                               ok |-> FALSE]

(* Variant: the ROLLBACK is never issued.                                  *)
RollbackTransaction_Skipped(c, ok) == [conn |-> c, ok |-> FALSE]

RollbackTransaction(c, ok) ==
    IF ok /\ c.inTxn
    THEN [conn |-> [c EXCEPT !.view = c.disk, !.inTxn = FALSE], ok |-> TRUE]
    ELSE [conn |-> c, ok |-> FALSE]

----------------------------------------------------------------------------
(* bool CreateCodebook(username, name)                                     *)
(* F holds the results the sqlite3 calls may give: F.prepares, F.steps,    *)
(* F.begins, F.commits, F.rollbacks.                                       *)

(* Variant: the conflict is keyed on the name alone.                       *)
Conflict_ByName(rows, username, name) == \E r \in rows : r.name = name

(* Variant: the insert never takes the conflict path.                      *)
Conflict_Never(rows, username, name) == FALSE

(* ON CONFLICT(username, codebook_name) DO NOTHING                         *)
Conflict(rows, username, name) ==
    \E r \in rows : r.username = username /\ r.name = name

CreateCodebook(username, name, F) ==
    /\ pc = "idle"
    /\ LET args == [username |-> username, name |-> name] IN
       \E ub \in IF \E i \in DOMAIN name : name[i].c = HighByte
                 THEN BOOLEAN ELSE {FALSE} :
       IF ~ValidateCodebookName(name, ub)
       THEN /\ last' = Call("CreateCodebook", args, "InvalidArgument",
                            "Codebook name is invalid", <<>>, <<>>)
            /\ UNCHANGED <<disk, view, inTxn, now>>
       ELSE \E prep \in F.prepares :
       IF ~prep
       THEN /\ last' = Call("CreateCodebook", args, "StorageError",
                            "Prepare failed", <<>>, <<Ev(Conn, "prepare", FALSE)>>)
            /\ UNCHANGED <<disk, view, inTxn, now>>
       ELSE \E st \in F.steps :
            LET conflict == Conflict(view.cb, username, name)
            IN /\ IF st = "done" /\ ~conflict
                  THEN \E id \in FreshIds(view.cb, MaxCbId),
                          t \in now .. (IF now < MaxTime THEN now + 1 ELSE now) :
                          /\ now' = t
                          /\ SetConn(StepWrite(Conn, st,
                                 [view EXCEPT !.cb = @ \cup
                                     {[id |-> id, username |-> username,
                                       name |-> name, t |-> t]}]))
                  ELSE /\ now' = now
                       /\ SetConn(StepWrite(Conn, st, view))
               /\ last' = Call("CreateCodebook", args,
                               IF st = "done" THEN "true" ELSE "false",
                               "", <<>>, StmtTrace(Conn, st))
    /\ pc' = pc

----------------------------------------------------------------------------
(* bool CheckCodebookExists(codebook_id): raised, or the answer            *)

(* Variant: every codebook_id is reported to exist.                        *)
CheckCodebookExists_Always(c, codebook_id, prep) ==
    IF ~prep
    THEN [raised |-> TRUE, exists |-> FALSE,
          trace |-> <<Ev(c, "prepare", FALSE)>>]
    ELSE [raised |-> FALSE, exists |-> TRUE,
          trace |-> <<Ev(c, "prepare", TRUE), Ev(c, "step", TRUE),
                      Ev(c, "finalize", TRUE)>>]

CheckCodebookExists(c, codebook_id, prep) ==
    IF ~prep
    THEN [raised |-> TRUE, exists |-> FALSE,
          trace |-> <<Ev(c, "prepare", FALSE)>>]
    ELSE [raised |-> FALSE,
          exists |-> \E r \in c.view.cb : r.id = codebook_id,
          trace |-> <<Ev(c, "prepare", TRUE), Ev(c, "step", TRUE),
                      Ev(c, "finalize", TRUE)>>]

----------------------------------------------------------------------------
(* bool AddEntry(codebook_id, address, public_key, encrypted_password,     *)
(*               notes)                                                    *)

NewEntry_SwappedBinds(id, codebook_id, f, t) ==
    [id |-> id, cb |-> codebook_id, address |-> f.address,
     public_key |-> f.encrypted_password, encrypted_password |-> f.public_key,
     notes |-> f.notes, t |-> t]

(* The row inserted from the five bound parameters; entry_id and           *)
(* created_time are filled in by the store.                                *)
NewEntry(id, codebook_id, f, t) ==
    [id |-> id, cb |-> codebook_id, address |-> f.address,
     public_key |-> f.public_key, encrypted_password |-> f.encrypted_password,
     notes |-> f.notes, t |-> t]

AddEntry(codebook_id, f, F) ==
    /\ pc = "idle"
    /\ \E prepC \in F.prepares :
       LET args == [codebook_id |-> codebook_id, f |-> f]
           chk == CheckCodebookExists(Conn, codebook_id, prepC)
       IN
       IF chk.raised
       THEN /\ last' = Call("AddEntry", args, "StorageError", "Prepare failed",
                            <<>>, chk.trace)
            /\ UNCHANGED <<disk, view, inTxn, now>>
       ELSE IF ~chk.exists
       THEN /\ last' = Call("AddEntry", args, "false", "", <<>>, chk.trace)
            /\ UNCHANGED <<disk, view, inTxn, now>>
       ELSE \E prep \in F.prepares :
       IF ~prep
       THEN /\ last' = Call("AddEntry", args, "StorageError", "Prepare failed",
                            <<>>, chk.trace \o <<Ev(Conn, "prepare", FALSE)>>)
            /\ UNCHANGED <<disk, view, inTxn, now>>
       ELSE \E st \in F.steps :
            /\ IF st = "done"
               THEN \E id \in FreshIds(view.en, MaxEntryId),
                       t \in now .. (IF now < MaxTime THEN now + 1 ELSE now) :
                       /\ now' = t
                       /\ SetConn(StepWrite(Conn, st,
                              [view EXCEPT !.en = @ \cup
                                  {NewEntry(id, codebook_id, f, t)}]))
               ELSE /\ now' = now
                    /\ SetConn(StepWrite(Conn, st, view))
            /\ last' = Call("AddEntry", args,
                            IF st = "done" THEN "true" ELSE "false",
                            "", <<>>, chk.trace \o StmtTrace(Conn, st))
    /\ pc' = pc

----------------------------------------------------------------------------
(* bool UpdateEntry(entry_id, new_address, new_public_key,                 *)
(*                  new_encrypted_password, new_notes)                     *)

(* Variant: the number of changed rows is not consulted.                   *)
UpdateResult_IgnoresRows(success, rowsAffected) == success

(* return success && (rowsAffected > 0)                                    *)
UpdateResult(success, rowsAffected) == success /\ rowsAffected > 0

UpdateEntry(entry_id, f, F) ==
    /\ pc = "idle"
    /\ LET args == [entry_id |-> entry_id, f |-> f]
           invalid(what) ==
               /\ last' = Call("UpdateEntry", args, "InvalidArgument", what,
                               <<>>, <<>>)
               /\ UNCHANGED <<disk, view, inTxn>>
       IN
       IF ~ValidAddress(f.address)
       THEN invalid("Address must be 1-253 characters")
       ELSE IF ~ValidPublicKey(f.public_key)
       THEN invalid("Public key is invalid")
       ELSE IF ~ValidEncryptedPassword(f.encrypted_password)
       THEN invalid("Encrypted password is invalid")
       ELSE \E prep \in F.prepares :
       IF ~prep
       THEN /\ last' = Call("UpdateEntry", args, "StorageError",
                            "Prepare failed", <<>>, <<Ev(Conn, "prepare", FALSE)>>)
            /\ UNCHANGED <<disk, view, inTxn>>
       ELSE \E st \in F.steps :
            (* sqlite3_changes(): the rows this UPDATE changed, or, when   *)
            (* the step failed, the count an earlier statement left behind *)
            \E stale \in IF st = "done" THEN {0} ELSE {0, 1} :
            LET upd(r) == IF r.id = entry_id
                          THEN [r EXCEPT !.address = f.address,
                                         !.public_key = f.public_key,
                                         !.encrypted_password = f.encrypted_password,
                                         !.notes = f.notes]
                          ELSE r
                success == st = "done"
                rowsAffected == IF success
                                THEN Cardinality({r \in view.en : r.id = entry_id})
                                ELSE stale
            IN /\ SetConn(StepWrite(Conn, st, [view EXCEPT !.en = {upd(r) : r \in @}]))
               /\ last' = Call("UpdateEntry", args,
                               IF UpdateResult(success, rowsAffected)
                               THEN "true" ELSE "false",
                               "", <<>>, StmtTrace(Conn, st))
    /\ UNCHANGED <<now, pc>>

----------------------------------------------------------------------------
(* bool DeleteCodebook(codebook_id), one action per stage of its state     *)
(* machine.  The call is synchronous: while pc # "idle" nothing else runs. *)

Returns(ret, what, trace) ==
    last' = [last EXCEPT !.ret = ret, !.what = what, !.trace = @ \o trace]

(* throw runtime_error(what + ": " + sqlite3_errmsg(db_)) inside the try   *)
(* block, after the calls of `trace`.                                      *)
Throws(what, trace) ==
    \E m \in ErrMsgs(last.trace \o trace) :
        last' = [last EXCEPT !.ret = "pending", !.what = what, !.diag = m,
                             !.trace = @ \o trace]

DeleteCodebook(codebook_id, F) ==
    /\ pc = "idle"
    /\ \E prepC \in F.prepares :
       LET args == [codebook_id |-> codebook_id]
           chk == CheckCodebookExists(Conn, codebook_id, prepC)
       IN
       IF chk.raised
       THEN /\ last' = Call("DeleteCodebook", args, "StorageError",
                            "Prepare failed", <<>>, chk.trace)
            /\ pc' = "idle"
       ELSE IF ~chk.exists
       THEN /\ last' = Call("DeleteCodebook", args, "false", "", <<>>, chk.trace)
            /\ pc' = "idle"
       ELSE /\ last' = Call("DeleteCodebook", args, "pending", "", <<>>, chk.trace)
            /\ pc' = "NotStarted"
    /\ UNCHANGED <<disk, view, inTxn, now>>

(* Variant: the result of BeginTransaction is not tested.                  *)
DeleteCodebook_Begin_Unchecked(F) ==
    /\ pc = "NotStarted"
    /\ \E ok \in F.begins :
       LET b == BeginTransaction(Conn, ok) IN
       /\ SetConn(b.conn)
       /\ Returns("pending", "", <<Ev(Conn, "BEGIN", b.ok)>>)
       /\ pc' = "Began"
    /\ UNCHANGED now

DeleteCodebook_Begin(F) ==
    /\ pc = "NotStarted"
    /\ \E ok \in F.begins :
       LET b == BeginTransaction(Conn, ok) IN
       /\ SetConn(b.conn)
       /\ IF b.ok
          THEN /\ Returns("pending", "", <<Ev(Conn, "BEGIN", TRUE)>>)
               /\ pc' = "Began"
          ELSE /\ Returns("StorageError", "Failed to start transaction",
                          <<Ev(Conn, "BEGIN", FALSE)>>)
               /\ pc' = "idle"
    /\ UNCHANGED now

(* One of the two DELETE statements inside the try block: prepare, step,   *)
(* finalize; on failure roll back and throw `what`.                        *)
DeleteStatement(new, what, next, F) ==
    \E prep \in F.prepares :
    IF ~prep
    THEN \E rb \in F.rollbacks :
         LET r == RollbackTransaction(Conn, rb) IN
         /\ SetConn(r.conn)
         /\ Throws("Prepare failed",
                   <<Ev(Conn, "prepare", FALSE), Ev(Conn, "ROLLBACK", r.ok)>>)
         /\ pc' = "Catch"
    ELSE \E st \in F.steps :
    IF st # "done"
    THEN \E rb \in F.rollbacks :
         LET c1 == StepWrite(Conn, st, new)
             r  == RollbackTransaction(c1, rb)
         IN /\ SetConn(r.conn)
            /\ Throws(what, StmtTrace(Conn, st) \o <<Ev(c1, "ROLLBACK", r.ok)>>)
            /\ pc' = "Catch"
    ELSE /\ SetConn(StepWrite(Conn, st, new))
         /\ Returns("pending", "", StmtTrace(Conn, st))
         /\ pc' = next

(* Variant: the entries of the codebook are left in place.                 *)
DeleteCodebook_Entries_Kept(F) ==
    /\ pc = "Began"
    /\ DeleteStatement(view, "Delete entries failed", "EntriesDeleted", F)
    /\ UNCHANGED now

DeleteCodebook_Entries(F) ==
    /\ pc = "Began"
    /\ DeleteStatement([view EXCEPT !.en = {r \in @ : r.cb # last.args.codebook_id}],
                       "Delete entries failed", "EntriesDeleted", F)
    /\ UNCHANGED now

(* Variant: the DELETE on Codebook lacks its WHERE clause.                  *)
DeleteCodebook_Codebook_All(F) ==
    /\ pc = "EntriesDeleted"
    /\ DeleteStatement([view EXCEPT !.cb = {}],
                       "Delete codebook failed", "CodebookDeleted", F)
    /\ UNCHANGED now

DeleteCodebook_Codebook(F) ==
    /\ pc = "EntriesDeleted"
    /\ DeleteStatement([view EXCEPT !.cb = {r \in @ : r.id # last.args.codebook_id}],
                       "Delete codebook failed", "CodebookDeleted", F)
    /\ UNCHANGED now

DeleteCodebook_Commit(F) ==
    /\ pc = "CodebookDeleted"
    /\ \E cm \in F.commits :
       LET r == CommitTransaction(Conn, cm) IN
       /\ SetConn(r.conn)
       /\ IF r.ok
          THEN /\ Returns("true", "", <<Ev(Conn, "COMMIT", TRUE)>>)
               /\ pc' = "idle"
          ELSE /\ Throws("Commit failed", <<Ev(Conn, "COMMIT", FALSE)>>)
               /\ pc' = "Catch"
    /\ UNCHANGED now

(* Variant: the handler swallows the error and reports false.              *)
DeleteCodebook_Catch_Swallowed(F) ==
    /\ pc = "Catch"
    /\ Returns("false", "", <<>>)
    /\ pc' = "idle"
    /\ UNCHANGED <<disk, view, inTxn, now>>

(* Variant: the handler rethrows without rolling back.                     *)
DeleteCodebook_Catch_NoRollback(F) ==
    /\ pc = "Catch"
    /\ Returns("StorageError", last.what, <<>>)
    /\ pc' = "idle"
    /\ UNCHANGED <<disk, view, inTxn, now>>

(* catch (...) { RollbackTransaction(); throw; }                           *)
DeleteCodebook_Catch(F) ==
    /\ pc = "Catch"
    /\ \E rb \in F.rollbacks :
       LET r == RollbackTransaction(Conn, rb) IN
       /\ SetConn(r.conn)
       /\ Returns("StorageError", last.what, <<Ev(Conn, "ROLLBACK", r.ok)>>)
    /\ pc' = "idle"
    /\ UNCHANGED now

----------------------------------------------------------------------------
(* Query results                                                           *)

(* The orders in which a query with ORDER BY created_time DESC can yield   *)
(* the rows of S; rows with equal created_time come in any order.          *)
Orderings(S) ==
    {o \in [1 .. Cardinality(S) -> S] :
        /\ \A r \in S : \E i \in DOMAIN o : o[i] = r
        /\ \A i, j \in DOMAIN o : i < j => o[i].t >= o[j].t}

(* LIMIT lim OFFSET off: a negative LIMIT is no limit, a negative OFFSET   *)
(* is 0.                                                                   *)
LimitOffset(o, lim, off) ==
    LET from == IF off < 0 THEN 0 ELSE off IN
    IF from >= Len(o) THEN <<>>
    ELSE SubSeq(o, from + 1,
                IF lim < 0 \/ lim > Len(o) - from THEN Len(o) ELSE from + lim)

(* sqlite's LIKE: '%' matches any run of characters, '_' any one           *)
(* character, any other character itself, ASCII letters without regard to  *)
(* case.                                                                   *)
Fold(c) == CASE c = "A" -> "a" [] c = "B" -> "b" [] c = "C" -> "c" [] OTHER -> c

RECURSIVE LikeFrom(_, _, _, _)
LikeFrom(p, i, s, j) ==
    IF i > StrLen(p) THEN j > StrLen(s)
    ELSE IF CharAt(p, i) = "%"
         THEN \/ i = StrLen(p)
              \/ \E k \in j .. StrLen(s) + 1 : LikeFrom(p, i + 1, s, k)
    ELSE IF j > StrLen(s) THEN FALSE
    ELSE IF CharAt(p, i) = "_" THEN LikeFrom(p, i + 1, s, j + 1)
    ELSE /\ Fold(CharAt(p, i)) = Fold(CharAt(s, j))
         /\ LikeFrom(p, i + 1, s, j + 1)

Like(s, p) == LikeFrom(p, 1, s, 1)

----------------------------------------------------------------------------
(* vector<Codebook> GetUserCodebooks(username)                             *)

GetUserCodebooks(username, F) ==
    /\ pc = "idle"
    /\ LET args == [username |-> username] IN
       \E prep \in F.prepares :
       IF ~prep
       THEN last' = Call("GetUserCodebooks", args, "StorageError",
                         "Prepare failed", <<>>, <<Ev(Conn, "prepare", FALSE)>>)
       ELSE \E o \in Orderings({r \in view.cb : r.username = username}) :
            last' = Call("GetUserCodebooks", args, "rows", "",
                         [i \in DOMAIN o |->
                             [id |-> o[i].id, name |-> o[i].name,
                              created_time |-> o[i].t]],
                         <<Ev(Conn, "prepare", TRUE), Ev(Conn, "step", TRUE),
                           Ev(Conn, "finalize", TRUE)>>)
    /\ UNCHANGED <<disk, view, inTxn, now, pc>>

----------------------------------------------------------------------------
(* vector<PasswordEntry> GetEntries(codebook_id, filter, page, page_size)  *)

(* "%" + filter + "%"                                                      *)
FilterPattern(filter) == Concat(Concat(Rep("%", 1), filter), Rep("%", 1))

(* int offset = page * page_size: when the product does not fit an int the *)
(* multiplication is undefined; `ub` is the value the build leaves in      *)
(* offset then.                                                            *)
IntMax == 2147483647

Overflows(page, page_size) ==
    page > 0 /\ page_size > 0 /\ page > IntMax \div page_size

OverflowOffsets == {-1, 0, IntMax}

Offset(page, page_size, ub) ==
    IF Overflows(page, page_size) THEN ub ELSE page * page_size

GetEntries(codebook_id, filter, page, page_size, F) ==
    /\ pc = "idle"
    /\ LET args == [codebook_id |-> codebook_id, filter |-> filter,
                    page |-> page, page_size |-> page_size]
           filter_pattern == FilterPattern(filter)
       IN
       \E prep \in F.prepares :
       IF ~prep
       THEN last' = Call("GetEntries", args, "StorageError", "Prepare failed",
                         <<>>, <<Ev(Conn, "prepare", FALSE)>>)
       ELSE \E o \in Orderings({r \in view.en :
                        r.cb = codebook_id /\ Like(r.address, filter_pattern)}) :
            \E ub \in IF Overflows(page, page_size) THEN OverflowOffsets ELSE {0} :
            LET offset == Offset(page, page_size, ub)
                got == LimitOffset(o, page_size, offset)
            IN
            last' = Call("GetEntries", args, "rows", "",
                         [i \in DOMAIN got |->
                             [id |-> got[i].id, address |-> got[i].address,
                              public_key |-> got[i].public_key,
                              encrypted_password |-> got[i].encrypted_password,
                              notes |-> got[i].notes,
                              created_time |-> got[i].t]],
                         <<Ev(Conn, "prepare", TRUE), Ev(Conn, "step", TRUE),
                           Ev(Conn, "finalize", TRUE)>>)
    /\ UNCHANGED <<disk, view, inTxn, now, pc>>

----------------------------------------------------------------------------
(* Specifications.  Ops(I, F) is one call of any operation, or one stage   *)
(* of a running DeleteCodebook, with arguments drawn from the sets of I    *)
(* and sqlite3 results from the sets of F.                                 *)

Ops(I, F) ==
    \/ \E u \in I.users, n \in I.names : CreateCodebook(u, n, F)
    \/ \E c \in CodebookIds, f \in I.adds : AddEntry(c, f, F)
    \/ \E e \in EntryIds, f \in I.updates : UpdateEntry(e, f, F)
    \/ \E c \in CodebookIds : DeleteCodebook(c, F)
    \/ DeleteCodebook_Begin(F)
    \/ DeleteCodebook_Entries(F)
    \/ DeleteCodebook_Codebook(F)
    \/ DeleteCodebook_Commit(F)
    \/ DeleteCodebook_Catch(F)
    \/ \E u \in I.users : GetUserCodebooks(u, F)
    \/ \E c \in CodebookIds, fl \in I.filters, pg \in I.pages, ps \in I.sizes :
          GetEntries(c, fl, pg, ps, F)

(* Every sqlite3 failure the code tests for.                               *)
AnyFault == [prepares |-> BOOLEAN, steps |-> StepResults, begins |-> BOOLEAN,
             commits |-> CommitResults, rollbacks |-> BOOLEAN]

(* The same, except that ROLLBACK of an open transaction does not fail.    *)
RollbackWorks == [AnyFault EXCEPT !.rollbacks = {TRUE}]

NoFault == [prepares |-> {TRUE}, steps |-> {"done"}, begins |-> {TRUE},
            commits |-> {"done"}, rollbacks |-> {TRUE}]

Next ==
    Ops([users |-> {"u", "v"}, names |-> {NameMixed, NameBang},
         adds |-> {Fields(sAB, sK, sP, sN)},
         updates |-> {Fields(Str(<<"a", "_", "b">>), sK, sP, <<>>),
                      Fields(<<>>, sK, sP, sN)},
         filters |-> {<<>>}, pages |-> {0}, sizes |-> {MaxEntryId}],
        RollbackWorks)

Spec == Init /\ [][Next]_vars

(* Codebook names at and around the validation limits.                     *)
NextNames ==
    \E u \in {"u", "v"}, n \in Names : CreateCodebook(u, n, RollbackWorks)

SpecNames == Init /\ [][NextNames]_vars

(* Entry fields at and around the validation limits.                       *)
NextFields ==
    \/ CreateCodebook("u", NameA, NoFault)
    \/ \E c \in CodebookIds : AddEntry(c, Fields(sAB, sK, sP, sN), NoFault)
    \/ \E e \in EntryIds, f \in UpdatePayloads : UpdateEntry(e, f, RollbackWorks)

SpecFields == Init /\ [][NextFields]_vars

(* Owners, the empty owner among them, creating and listing codebooks.     *)
Owners == {"", "u"}

NextOwners ==
    \/ \E u \in Owners, n \in {NameA, NameMixed} : CreateCodebook(u, n, NoFault)
    \/ \E c \in CodebookIds : DeleteCodebook(c, NoFault)
    \/ DeleteCodebook_Begin(NoFault)
    \/ DeleteCodebook_Entries(NoFault)
    \/ DeleteCodebook_Codebook(NoFault)
    \/ DeleteCodebook_Commit(NoFault)
    \/ \E u \in Owners : GetUserCodebooks(u, NoFault)

SpecOwners == Init /\ [][NextOwners]_vars

(* Entries added with fields inside and outside the limits UpdateEntry     *)
(* enforces.                                                               *)
AddPayloads ==
    { Fields(sAB, sK, sP, sN),
      Fields(<<>>, sK, sP, sN),
      Fields(Rep("a", MaxAddressLen + 1), <<>>, sP, <<>>),
      Fields(sAB, Rep("k", MaxPublicKeyLen + 1),
             Rep("p", MaxEncryptedPasswordLen + 1), sN) }

NextAdd ==
    \/ CreateCodebook("u", NameA, NoFault)
    \/ \E c \in CodebookIds, f \in AddPayloads : AddEntry(c, f, RollbackWorks)

SpecAdd == Init /\ [][NextAdd]_vars

(* Addresses and filters with letters of both cases and LIKE wildcards.    *)
Filters ==
    {<<>>, Str(<<"b">>), Str(<<"A">>), Str(<<"_">>), Str(<<"%">>)}

QueryPayloads ==
    { Fields(sAB, sK, sP, sN),
      Fields(Str(<<"a", "_", "b">>), sK, sP, sN),
      Fields(Str(<<"1", "%">>), sK, sP, sN) }

NextQuery ==
    \/ CreateCodebook("u", NameA, NoFault)
    \/ \E c \in CodebookIds, f \in QueryPayloads : AddEntry(c, f, NoFault)
    \/ \E c \in CodebookIds, fl \in Filters, pg \in {0, 1},
          ps \in {1, MaxEntryId} :
          GetEntries(c, fl, pg, ps, NoFault)

SpecQuery == Init /\ [][NextQuery]_vars

(* Pages of the entries of a codebook, small and large page numbers.       *)
BigPage == 65536

NextPages ==
    \/ CreateCodebook("u", NameA, NoFault)
    \/ \E c \in CodebookIds : AddEntry(c, Fields(sAB, sK, sP, sN), NoFault)
    \/ \E c \in CodebookIds, pg \in {0, 1, 2, BigPage},
          ps \in {1, 2, BigPage} :
          GetEntries(c, <<>>, pg, ps, NoFault)

SpecPages == Init /\ [][NextPages]_vars

----------------------------------------------------------------------------
(* Properties                                                              *)

Done(op) == pc = "idle" /\ last.op = op

HasCodebook(rows, id) == \E r \in rows.cb : r.id = id

EntriesOf(rows, id) == {e \in rows.en : e.cb = id}

PrepareFailed(trace) ==
    \E i \in DOMAIN trace : trace[i].call = "prepare" /\ ~trace[i].ok

Issued(trace, call) == \E i \in DOMAIN trace : trace[i].call = call

(* C1: once DeleteCodebook on an existing codebook has returned or raised, *)
(* whichever of BEGIN, the two DELETEs (prepare or step) and COMMIT        *)
(* failed, either it returned true and the codebook and all its entries    *)
(* are gone, or it raised StorageError and every row is as before the      *)
(* call.  The failures are those of Spec: any tested sqlite3 call may      *)
(* fail, a ROLLBACK of an open transaction does its work.                  *)
C1_DeleteAllOrNothing ==
    (Done("DeleteCodebook") /\ HasCodebook(last.pre, last.args.codebook_id)) =>
        \/ /\ last.ret = "true"
           /\ ~HasCodebook(view, last.args.codebook_id)
           /\ EntriesOf(view, last.args.codebook_id) = {}
           /\ disk = view
        \/ /\ last.ret = "StorageError"
           /\ view = last.pre
           /\ disk = view

C1_Witness ==
    /\ Done("DeleteCodebook")
    /\ last.ret = "StorageError"
    /\ last.what = "Delete codebook failed"
    /\ EntriesOf(last.pre, last.args.codebook_id) # {}
    /\ view = last.pre

(* C2: in every state, also in the middle of a DeleteCodebook and after    *)
(* calls that failed or raised, every PasswordEntry row references an      *)
(* existing Codebook row.                                                  *)
NoOrphans(rows) == \A e \in rows.en : HasCodebook(rows, e.cb)

C2_NoOrphanEntries == NoOrphans(view) /\ NoOrphans(disk)

C2_Witness ==
    /\ Done("DeleteCodebook")
    /\ last.ret = "true"
    /\ EntriesOf(last.pre, last.args.codebook_id) # {}
    /\ view.en # {}

(* C3 as stated: AddEntry with a codebook_id that references no Codebook   *)
(* returns false, never raises, and leaves the rows as they were.          *)
C3_Original ==
    (Done("AddEntry") /\ ~HasCodebook(last.pre, last.args.codebook_id)) =>
        /\ last.ret = "false"
        /\ view = last.pre

(* C3 amended: AddEntry with a codebook_id that references no Codebook     *)
(* leaves the rows as they were and returns false, unless preparing the    *)
(* existence query fails, in which case it raises StorageError.            *)
C3_AddEntryUnknownCodebook ==
    (Done("AddEntry") /\ ~HasCodebook(last.pre, last.args.codebook_id)) =>
        /\ view = last.pre
        /\ last.ret = IF PrepareFailed(last.trace) THEN "StorageError" ELSE "false"
        /\ ~Issued(last.trace, "step") \/ Len(last.trace) = 3

C3_Witness ==
    /\ Done("AddEntry")
    /\ ~HasCodebook(last.pre, last.args.codebook_id)
    /\ last.ret = "false"
    /\ view.cb # {}

(* C4 as stated: CreateCodebook(owner, name) for a pair that already       *)
(* exists returns true and leaves the store unchanged, with exactly one    *)
(* Codebook row for the pair.                                              *)
HasPair(rows, username, name) ==
    \E r \in rows.cb : r.username = username /\ r.name = name

PairRows(rows, username, name) ==
    {r \in rows.cb : r.username = username /\ r.name = name}

StepFailed(trace) ==
    \E i \in DOMAIN trace : trace[i].call = "step" /\ ~trace[i].ok

C4_Original ==
    (Done("CreateCodebook")
       /\ HasPair(last.pre, last.args.username, last.args.name)) =>
        /\ last.ret = "true"
        /\ view = last.pre
        /\ Cardinality(PairRows(view, last.args.username, last.args.name)) = 1

(* C4 amended: CreateCodebook(owner, name) for a pair that already exists  *)
(* leaves the store unchanged, with exactly one Codebook row for the pair; *)
(* it returns true when its insert statement is prepared and executes      *)
(* without error, raises StorageError when the prepare fails and returns   *)
(* false when the execution fails.                                         *)
C4_CreateIdempotent ==
    (Done("CreateCodebook")
       /\ HasPair(last.pre, last.args.username, last.args.name)) =>
        /\ view = last.pre
        /\ Cardinality(PairRows(view, last.args.username, last.args.name)) = 1
        /\ last.ret = IF PrepareFailed(last.trace) THEN "StorageError"
                      ELSE IF StepFailed(last.trace) THEN "false"
                      ELSE "true"

C4_Witness ==
    /\ Done("CreateCodebook")
    /\ HasPair(last.pre, last.args.username, last.args.name)
    /\ last.ret = "true"
    /\ Cardinality(view.cb) = 2

(* C5: no two Codebook rows share (owner, name), and the uniqueness is per *)
(* owner: a CreateCodebook that returned true for a pair not yet present   *)
(* added one row for it, whatever names other owners hold.                 *)
UniquePairs(rows) ==
    \A r1, r2 \in rows.cb :
        (r1.username = r2.username /\ r1.name = r2.name) => r1 = r2

C5_UniquePerOwner ==
    /\ UniquePairs(view)
    /\ UniquePairs(disk)
    /\ (Done("CreateCodebook") /\ last.ret = "true"
          /\ ~HasPair(last.pre, last.args.username, last.args.name)) =>
            \E r \in view.cb :
                /\ r.username = last.args.username
                /\ r.name = last.args.name
                /\ r \notin last.pre.cb
                /\ view.cb = last.pre.cb \cup {r}

C5_Witness ==
    /\ Done("CreateCodebook")
    /\ last.ret = "true"
    /\ \E r1, r2 \in view.cb :
          /\ r1.name = r2.name
          /\ r1.username # r2.username
          /\ r1 \in last.pre.cb
          /\ r2 \notin last.pre.cb

(* C6: CreateCodebook raises InvalidArgument, with no sqlite3 call made    *)
(* and the store unchanged, exactly when the name is empty, longer than    *)
(* 100 characters or holds a character that is not alphanumeric, space,    *)
(* '-' or '_'; every other name goes on to the insert.                     *)
NameWellFormed(name) ==
    /\ StrLen(name) >= 1
    /\ StrLen(name) <= 100
    /\ \A i \in DOMAIN name : name[i].c \in AsciiAlnum \cup {" ", "-", "_"}

C6_Original ==
    Done("CreateCodebook") =>
        /\ (last.ret = "InvalidArgument") <=> ~NameWellFormed(last.args.name)
        /\ last.ret = "InvalidArgument" => (last.trace = <<>> /\ view = last.pre)
        /\ NameWellFormed(last.args.name) => Issued(last.trace, "prepare")

(* C7 as stated: UpdateEntry with valid fields returns true iff the update *)
(* statement succeeded and the entry exists; on a non-existent entry_id it *)
(* returns false without raising and changes nothing; a true return means  *)
(* the entry carries exactly the new fields, which GetEntries returns.     *)
FieldsWithinLimits(f) ==
    /\ StrLen(f.address) \in 1 .. 253
    /\ StrLen(f.public_key) \in 1 .. 4096
    /\ StrLen(f.encrypted_password) \in 1 .. 512

HadEntry == \E e \in last.pre.en : e.id = last.args.entry_id

Replaced ==
    /\ view.cb = last.pre.cb
    /\ view.en = {IF e.id = last.args.entry_id
                  THEN [e EXCEPT !.address = last.args.f.address,
                                 !.public_key = last.args.f.public_key,
                                 !.encrypted_password = last.args.f.encrypted_password,
                                 !.notes = last.args.f.notes]
                  ELSE e : e \in last.pre.en}

(* A GetEntries with the empty filter and a page that holds every entry    *)
(* returns the stored fields of the entries of the codebook.               *)
GetEntriesShowsView ==
    (Done("GetEntries") /\ last.ret = "rows" /\ last.args.filter = <<>>
       /\ last.args.page = 0
       /\ last.args.page_size >= Cardinality(EntriesOf(view, last.args.codebook_id))) =>
        {last.rows[i] : i \in DOMAIN last.rows} =
            {[id |-> e.id, address |-> e.address, public_key |-> e.public_key,
              encrypted_password |-> e.encrypted_password, notes |-> e.notes,
              created_time |-> e.t] : e \in EntriesOf(view, last.args.codebook_id)}

C7_Original ==
    /\ (Done("UpdateEntry") /\ FieldsWithinLimits(last.args.f)) =>
        /\ (last.ret = "true") <=>
              (HadEntry /\ Issued(last.trace, "step") /\ ~StepFailed(last.trace))
        /\ ~HadEntry => (last.ret = "false" /\ view = last.pre)
        /\ last.ret = "true" => Replaced
    /\ GetEntriesShowsView

(* C7 amended: as stated, except that on a non-existent entry_id the call  *)
(* changes nothing and returns false only if the statement could be        *)
(* prepared; if the prepare fails it raises StorageError.                  *)
C7_UpdateEntry ==
    /\ (Done("UpdateEntry") /\ FieldsWithinLimits(last.args.f)) =>
        /\ (last.ret = "true") <=>
              (HadEntry /\ Issued(last.trace, "step") /\ ~StepFailed(last.trace))
        /\ ~HadEntry =>
              /\ view = last.pre
              /\ last.ret = IF PrepareFailed(last.trace) THEN "StorageError"
                            ELSE "false"
        /\ last.ret = "true" => Replaced
    /\ GetEntriesShowsView

C7_Witness ==
    /\ Done("UpdateEntry")
    /\ last.ret = "true"
    /\ \E e \in view.en : e.id = last.args.entry_id /\ e \notin last.pre.en
    /\ Cardinality(view.en) = 2

(* C8: UpdateEntry raises InvalidArgument, with no sqlite3 call made and   *)
(* every row unchanged, exactly when new_address is empty or longer than   *)
(* 253, new_public_key is empty or longer than 4096, or                    *)
(* new_encrypted_password is empty or longer than 512 characters;          *)
(* new_notes plays no part.                                                *)
C8_UpdateValidation ==
    Done("UpdateEntry") =>
        /\ (last.ret = "InvalidArgument") <=> ~FieldsWithinLimits(last.args.f)
        /\ last.ret = "InvalidArgument" =>
              (last.trace = <<>> /\ view = last.pre)

C8_Witness ==
    /\ Done("UpdateEntry")
    /\ last.ret = "InvalidArgument"
    /\ StrLen(last.args.f.address) = 254
    /\ \E e \in view.en : e.id = last.args.entry_id /\ StrLen(e.address) = 253

(* C9 as stated: DeleteCodebook on a codebook_id that does not exist       *)
(* returns false, never raises, never begins a transaction and leaves all  *)
(* rows unchanged.                                                         *)
C9_Original ==
    (Done("DeleteCodebook") /\ ~HasCodebook(last.pre, last.args.codebook_id)) =>
        /\ last.ret = "false"
        /\ ~Issued(last.trace, "BEGIN")
        /\ view = last.pre

(* C9 amended: DeleteCodebook on a codebook_id that does not exist never   *)
(* begins a transaction and leaves all rows unchanged; it returns false,   *)
(* unless preparing the existence query fails, in which case it raises     *)
(* StorageError.                                                           *)
C9_DeleteUnknownCodebook ==
    (Done("DeleteCodebook") /\ ~HasCodebook(last.pre, last.args.codebook_id)) =>
        /\ last.ret = IF PrepareFailed(last.trace) THEN "StorageError" ELSE "false"
        /\ ~Issued(last.trace, "BEGIN")
        /\ view = last.pre

C9_Witness ==
    /\ Done("DeleteCodebook")
    /\ ~HasCodebook(last.pre, last.args.codebook_id)
    /\ last.ret = "false"
    /\ view.en # {}

(* C10: GetEntries returns only entries of the codebook whose address      *)
(* contains the filter as a literal contiguous substring, whatever         *)
(* characters the filter holds, and with a page large enough all of them.  *)
Contains(s, f) ==
    \E k \in 0 .. StrLen(s) - StrLen(f) :
        \A i \in 1 .. StrLen(f) : CharAt(s, k + i) = CharAt(f, i)

C10_Original ==
    (Done("GetEntries") /\ last.ret = "rows") =>
        LET mine == EntriesOf(view, last.args.codebook_id)
            got == {last.rows[i].id : i \in DOMAIN last.rows}
        IN /\ \A i \in DOMAIN last.rows :
                 /\ \E e \in mine : e.id = last.rows[i].id
                                      /\ e.address = last.rows[i].address
                 /\ Contains(last.rows[i].address, last.args.filter)
           /\ (last.args.page = 0 /\ last.args.page_size >= Cardinality(mine)) =>
                 \A e \in mine : Contains(e.address, last.args.filter) => e.id \in got

(* C11: for page >= 0 and page_size > 0, GetEntries returns the entries at *)
(* the zero-based positions page*page_size .. page*page_size+page_size-1   *)
(* of the matching entries of the codebook ordered by creation time        *)
(* descending: fewer at the end, none beyond the end.                      *)
MatchingEntries ==
    {e \in EntriesOf(view, last.args.codebook_id) :
        Like(e.address, FilterPattern(last.args.filter))}

PageOf(o, page, page_size) ==
    IF page > Len(o) THEN <<>>
    ELSE SubSeq(o, page * page_size + 1,
                IF page * page_size + page_size > Len(o) THEN Len(o)
                ELSE page * page_size + page_size)

C11_Original ==
    (Done("GetEntries") /\ last.ret = "rows"
       /\ last.args.page >= 0 /\ last.args.page_size > 0) =>
        \E o \in Orderings(MatchingEntries) :
            LET want == PageOf(o, last.args.page, last.args.page_size) IN
            /\ Len(last.rows) = Len(want)
            /\ \A i \in DOMAIN want :
                  /\ last.rows[i].id = want[i].id
                  /\ last.rows[i].created_time = want[i].t

(* C12: GetUserCodebooks(owner) returns exactly the codebooks whose owner   *)
(* equals the argument, newest first, and the empty sequence for the empty *)
(* owner, whatever CreateCodebook calls came before.                       *)
C12_Original ==
    (Done("GetUserCodebooks") /\ last.ret = "rows") =>
        LET want == IF last.args.username = "" THEN {}
                    ELSE {r \in view.cb : r.username = last.args.username} IN
        \E o \in Orderings(want) :
            last.rows = [i \in DOMAIN o |->
                            [id |-> o[i].id, name |-> o[i].name,
                             created_time |-> o[i].t]]

(* C13: AddEntry on an existing codebook never rejects its fields; when    *)
(* the insert statement was stepped successfully it returns true and the   *)
(* rows are those before the call plus exactly one new entry carrying the  *)
(* given codebook_id, address, public_key, encrypted_password and notes,   *)
(* whatever their lengths; otherwise no row is added.                      *)
InsertStepped ==
    /\ Len(last.trace) = 6
    /\ last.trace[5].call = "step"
    /\ last.trace[5].ok

C13_AddEntry ==
    (Done("AddEntry") /\ HasCodebook(last.pre, last.args.codebook_id)) =>
        /\ last.ret # "InvalidArgument"
        /\ view.cb = last.pre.cb
        /\ InsertStepped <=> last.ret = "true"
        /\ IF InsertStepped
           THEN \E e \in view.en :
                   /\ view.en = last.pre.en \cup {e}
                   /\ \A o \in last.pre.en : o.id # e.id
                   /\ e.cb = last.args.codebook_id
                   /\ e.address = last.args.f.address
                   /\ e.public_key = last.args.f.public_key
                   /\ e.encrypted_password = last.args.f.encrypted_password
                   /\ e.notes = last.args.f.notes
           ELSE view.en = last.pre.en

C13_Witness ==
    /\ Done("AddEntry")
    /\ last.ret = "true"
    /\ StrLen(last.args.f.address) > MaxAddressLen
    /\ last.args.f.public_key = <<>>
    /\ \E e \in view.en : ~FieldsWithinLimits(e) /\ e.address = <<>>

(* C14: across every finished operation, a Codebook row present before it  *)
(* is present unchanged afterwards, and a PasswordEntry row present before *)
(* it is present unchanged afterwards, with two exceptions: a              *)
(* DeleteCodebook(id) that returned true removes codebook id and its       *)
(* entries; an UpdateEntry(e) may replace address, public_key,             *)
(* encrypted_password and notes of entry e, keeping its entry id,          *)
(* codebook_id and created timestamp and adding or removing no row.        *)
Deleted(id) ==
    /\ last.op = "DeleteCodebook"
    /\ last.ret = "true"
    /\ last.args.codebook_id = id

Updated(e) ==
    /\ last.op = "UpdateEntry"
    /\ last.args.entry_id = e.id
    /\ \E n \in view.en : n.id = e.id /\ n.cb = e.cb /\ n.t = e.t
    /\ Cardinality(view.en) = Cardinality(last.pre.en)

C14_RowsKept ==
    (pc = "idle" /\ last.op # "none") =>
        /\ \A r \in last.pre.cb : r \in view.cb \/ Deleted(r.id)
        /\ \A e \in last.pre.en : e \in view.en \/ Deleted(e.cb) \/ Updated(e)

C14_Witness ==
    /\ Done("DeleteCodebook")
    /\ last.ret = "true"
    /\ \E e \in last.pre.en : e.cb = last.args.codebook_id
    /\ \E e \in last.pre.en : e.cb # last.args.codebook_id /\ e \in view.en
    /\ \E r \in last.pre.cb : r.id # last.args.codebook_id /\ r \in view.cb

(* The sqlite3 calls of a DeleteCodebook after its existence check, the    *)
(* calls of the success path in order, and the position of the first call  *)
(* that failed (one past the end when none did).                           *)
Steps == SubSeq(last.trace, 4, Len(last.trace))

Path ==
    <<"BEGIN", "prepare", "step", "finalize", "prepare", "step", "finalize",
      "COMMIT">>

FirstFailure(ev) ==
    IF \A i \in DOMAIN ev : ev[i].ok THEN Len(ev) + 1
    ELSE CHOOSE i \in DOMAIN ev : ~ev[i].ok /\ \A j \in 1 .. i - 1 : ev[j].ok

PastCheck ==
    /\ last.op = "DeleteCodebook"
    /\ HasCodebook(last.pre, last.args.codebook_id)
    /\ Len(last.trace) >= 3

(* C15: DeleteCodebook on an existing codebook issues BEGIN, the entry     *)
(* delete, the codebook delete and COMMIT in this order, each only after   *)
(* everything before it succeeded; it returns true only after a successful *)
(* COMMIT; after the first failure past BEGIN it issues nothing but        *)
(* ROLLBACK (and the finalize of a failed step), issues at least one, and  *)
(* ends by raising StorageError, never by returning true or false.         *)
C15_DeleteStateMachine ==
    PastCheck =>
        LET ev == Steps
            k  == FirstFailure(ev)
        IN
        /\ \A i \in DOMAIN ev : i <= k => i <= Len(Path) /\ ev[i].call = Path[i]
        /\ \A i \in DOMAIN ev : i > k =>
               \/ ev[i].call = "ROLLBACK" /\ k > 1
               \/ ev[i].call = "finalize" /\ i = k + 1 /\ ev[k].call = "step"
        /\ pc = "NotStarted" <=> ev = <<>>
        /\ pc = "Began" <=> (Len(ev) = 1 /\ k = 2)
        /\ pc = "EntriesDeleted" <=> (Len(ev) = 4 /\ k = 5)
        /\ pc = "CodebookDeleted" <=> (Len(ev) = 7 /\ k = 8)
        /\ pc \in {"NotStarted", "Began", "EntriesDeleted", "CodebookDeleted",
                    "Catch"} => last.ret = "pending"
        /\ pc = "idle" =>
               IF k > Len(ev)
               THEN Len(ev) = Len(Path) /\ last.ret = "true"
               ELSE /\ last.ret = "StorageError"
                    /\ k > 1 => \E i \in DOMAIN ev : i > k /\ ev[i].call = "ROLLBACK"
        /\ pc = "Catch" =>
               /\ k \in 2 .. Len(ev)
               /\ ev[k].call # "COMMIT" =>
                      \E i \in DOMAIN ev : i > k /\ ev[i].call = "ROLLBACK"

C15_Witness ==
    /\ Done("DeleteCodebook")
    /\ last.ret = "StorageError"
    /\ Len(Steps) = Len(Path) + 1
    /\ ~Steps[8].ok
    /\ Steps[9].call = "ROLLBACK"
    /\ Steps[9].ok

(* C16: when BEGIN fails in DeleteCodebook, the operation ends there by    *)
(* raising StorageError "Failed to start transaction": BEGIN is the last   *)
(* sqlite3 call it makes (no DELETE is prepared or stepped, no COMMIT or   *)
(* ROLLBACK is issued) and every row is as before the call.                *)
BeginFailed == PastCheck /\ Steps # <<>> /\ ~Steps[1].ok

C16_BeginFailure ==
    BeginFailed =>
        /\ pc = "idle"
        /\ last.ret = "StorageError"
        /\ last.what = "Failed to start transaction"
        /\ Len(Steps) = 1
        /\ Steps[1].call = "BEGIN"
        /\ view = last.pre
        /\ disk = last.pre

C16_Witness ==
    /\ BeginFailed
    /\ Done("DeleteCodebook")
    /\ EntriesOf(view, last.args.codebook_id) # {}

(* The message prefix thrown for a failure of the k-th call of Path.       *)
PrefixOf(k) ==
    CASE k \in {2, 5} -> "Prepare failed"
      [] k = 3        -> "Delete entries failed"
      [] k = 6        -> "Delete codebook failed"
      [] k = 8        -> "Commit failed"

(* C17: when a call of DeleteCodebook fails after BEGIN succeeded, the     *)
(* operation raises StorageError and the error delivered is that of the    *)
(* call that failed first: its message prefix and the store's diagnostic   *)
(* of that call, whatever the ROLLBACKs issued afterwards report.          *)
C17_Original ==
    (Done("DeleteCodebook") /\ PastCheck /\ FirstFailure(Steps) \in 2 .. Len(Steps)) =>
        LET k == FirstFailure(Steps) IN
        /\ last.ret = "StorageError"
        /\ last.what = PrefixOf(k)
        /\ last.diag = Steps[k].call

(* Statement handles open after the first n sqlite3 calls of the           *)
(* operation: those successfully prepared and not yet finalized.           *)
OpenHandles(n) ==
    Cardinality({i \in 1 .. n : last.trace[i].call = "prepare" /\ last.trace[i].ok})
        - Cardinality({i \in 1 .. n : last.trace[i].call = "finalize"})

C19_NoOpenTransaction ==
    /\ pc = "idle" => ~inTxn /\ disk = view
    /\ last.op # "DeleteCodebook" => \A i \in DOMAIN last.trace : ~last.trace[i].txn
    /\ last.op = "DeleteCodebook" =>
           \A i \in DOMAIN last.trace :
               last.trace[i].txn => i > 4 /\ last.trace[4].call = "BEGIN"

C19_Witness ==
    /\ Done("DeleteCodebook")
    /\ last.ret = "StorageError"
    /\ Len(Steps) = 6
    /\ ~Steps[3].ok
    /\ Steps[5].call = "ROLLBACK" /\ Steps[5].txn /\ Steps[5].ok
    /\ Steps[6].call = "ROLLBACK" /\ ~Steps[6].txn /\ ~Steps[6].ok
    /\ ~inTxn

=============================================================================
